---- MODULE Spec2Model ----
(***************************************************************************)
(* A model of the quadtree of src/src/quadtree.js (class Quadtree).        *)
(*                                                                         *)
(* Node objects live in a heap: heap[n] is the object with identity n, the *)
(* root is object 1 and `new Quadtree` appends an object.  Objects that    *)
(* the tree no longer reaches stay in the heap, as they do in JavaScript   *)
(* while an item's _qtree_node still refers to them.  Array indices are    *)
(* the source's 0-based ones; sequences are 1-based, hence the +1.         *)
(***************************************************************************)
EXTENDS Integers, Sequences, FiniteSets, TLC

\* ------------------------------------------------------------------ bounds
NumItems == 3         \* item objects the caller owns
MaxSplits == 2        \* subdivisions performed in one run
MaxLog == 4           \* operations recorded by a scripted run

Items == 1..NumItems

\* Absent values: `undefined` parent / _qtree_node, and "no query made yet".
Undefined == 0
NoRect == [x1 |-> 0, y1 |-> 0, x2 |-> -1, y2 |-> -1]

Box(a, b, c, d) == [x1 |-> a, y1 |-> b, x2 |-> c, y2 |-> d]

\* Coordinates of the documented scenario are held in 1/32 units, so that
\* every midpoint x1 + (x2 - x1) / 2 down to depth 4 is an exact integer.
Fx(v) == v * 32

\* ---------------------------------------------------------- constructor
\* new Quadtree(x1, y1, x2, y2, maxChildren, maxDepth, parent)
NewNode(x1, y1, x2, y2, maxChildren, maxDepth, parent) ==
  [x1 |-> x1, y1 |-> y1, x2 |-> x2, y2 |-> y2,
   mx |-> x1 + (x2 - x1) \div 2,
   my |-> y1 + (y2 - y1) \div 2,
   maxChildren |-> maxChildren,
   depth |-> maxDepth,
   parent |-> parent,
   children |-> <<>>,
   nodes |-> <<>>]

\* The trees the caller constructs: 16 x 16 roots with maxChildren 1 that
\* may subdivide twice or once, one with maxChildren 2, and the root of the
\* documented scenario.
RootConfigs ==
  {NewNode(0, 0, 16, 16, 1, 2, Undefined),
   NewNode(0, 0, 16, 16, 1, 1, Undefined),
   NewNode(0, 0, 16, 16, 2, 2, Undefined)}

ScenarioRoot == NewNode(Fx(0), Fx(0), Fx(100), Fx(100), 2, 4, Undefined)

\* The bounds (item.bound) the caller gives its items.
Boxes ==
  <<Box(1, 1, 2, 2),      \* inside NW.NW
    Box(5, 5, 6, 6),      \* inside NW.SE
    Box(3, 3, 5, 5),      \* inside NW, straddles NW's midpoint
    Box(9, 9, 10, 10),    \* inside SE.NW
    Box(6, 6, 10, 10)>>   \* straddles the root's midpoint

ScenarioA == Box(Fx(0), Fx(0), Fx(5), Fx(5))
ScenarioB == Box(Fx(1), Fx(1), Fx(6), Fx(6))
ScenarioC == Box(Fx(2), Fx(2), Fx(7), Fx(7))
ScenarioBoxes == <<ScenarioA, ScenarioB, ScenarioC>>

\* The bounds of the runs of the prototype implementation: three in the
\* root's NE quadrant, around that quadrant's vertical midline x = 12.
PrototypeBoxes ==
  <<Box(1, 1, 2, 2), Box(9, 1, 10, 2), Box(11, 1, 13, 2), Box(13, 1, 14, 2)>>

\* The rectangles the caller queries.
Rects ==
  {Box(0, 0, 16, 16),    \* the root's full region
   Box(0, 0, 3, 3),
   Box(9, 9, 12, 12),
   Box(20, 20, 30, 30)}  \* disjoint from the root

ScenarioRects == {Box(Fx(0), Fx(0), Fx(100), Fx(100)), Box(Fx(200), Fx(200), Fx(300), Fx(300))}

\* ------------------------------------------------------------------ state
VARIABLES
  heap,    \* the node objects, by identity
  qnode,   \* item._qtree_node of every item (Undefined before its first push)
  bound,   \* item.bound of every item, which the caller never changes
  live,    \* the items the caller has pushed and not removed since
  err,     \* the last operation threw a TypeError
  qrect,   \* the rectangle of the last query, NoRect after a mutation
  out,     \* the items the last query passed to its callback, in call order
  qset,    \* the items on which the function given to the last query returns
           \* true: the stopping callback of query, the predicate of
           \* queryPredicate
  trip,    \* the push the caller made last and the item count before it, or
           \* the clear() made since the last push and the count before it
  twin,    \* a second tree, given the same pushes and removePreserve for remove
  log      \* the operations of a scripted run, in order

vars == <<heap, qnode, bound, live, err, qrect, out, qset, trip, twin, log>>

Root == 1

\* ------------------------------------------------------- getBoundQuadrant
\* A slip that tests the bound's near edge against the midpoint for NW.
getBoundQuadrant_NearEdge(nd, b) ==
  IF Len(nd.nodes) = 0 THEN -1
  ELSE IF b.y1 < nd.my /\ b.y1 > nd.y1 /\ b.x1 < nd.mx /\ b.x1 > nd.x1 THEN 0
  ELSE IF b.y2 < nd.my /\ b.y1 > nd.y1 /\ b.x1 > nd.mx /\ b.x2 < nd.x2 THEN 1
  ELSE IF b.y1 > nd.my /\ b.y2 < nd.y2 /\ b.x2 < nd.mx /\ b.x1 > nd.x1 THEN 2
  ELSE IF b.y1 > nd.my /\ b.y2 < nd.y2 /\ b.x1 > nd.mx /\ b.x2 < nd.x2 THEN 3
  ELSE -1

getBoundQuadrant(nd, b) ==
  IF Len(nd.nodes) = 0 THEN -1
  ELSE IF b.y2 < nd.my /\ b.y1 > nd.y1 /\ b.x2 < nd.mx /\ b.x1 > nd.x1 THEN 0
  ELSE IF b.y2 < nd.my /\ b.y1 > nd.y1 /\ b.x1 > nd.mx /\ b.x2 < nd.x2 THEN 1
  ELSE IF b.y1 > nd.my /\ b.y2 < nd.y2 /\ b.x2 < nd.mx /\ b.x1 > nd.x1 THEN 2
  ELSE IF b.y1 > nd.my /\ b.y2 < nd.y2 /\ b.x1 > nd.mx /\ b.x2 < nd.x2 THEN 3
  ELSE -1

\* ------------------------------------------------------------------- push
\* The four objects a subdivision constructs, in the order nw, ne, sw, se.
Subdivide(nd, n) ==
  <<NewNode(nd.x1, nd.y1, nd.mx, nd.my, nd.maxChildren, nd.depth - 1, n),
    NewNode(nd.mx, nd.y1, nd.x2, nd.my, nd.maxChildren, nd.depth - 1, n),
    NewNode(nd.x1, nd.my, nd.mx, nd.y2, nd.maxChildren, nd.depth - 1, n),
    NewNode(nd.mx, nd.my, nd.x2, nd.y2, nd.maxChildren, nd.depth - 1, n)>>

\* A slip that leaves the moved child in the list.
ShiftOut_Keep(children, i) == children

\* children with the element at 0-based index i shifted out ("faster splice").
ShiftOut(children, i) ==
  SubSeq(children, 1, i) \o SubSeq(children, i + 2, Len(children))

\* A slip that subdivides a node that has no depth budget left.
NoSubdivision_AnyDepth(nd) ==
  Len(nd.nodes) # 0 \/ Len(nd.children) <= nd.maxChildren

\* A slip that lets a leaf take one item more before it subdivides.
NoSubdivision_Late(nd) ==
  Len(nd.nodes) # 0 \/ nd.depth = 0 \/ Len(nd.children) <= nd.maxChildren + 1

\* The test that ends push after the item is appended: the node is already
\* subdivided, has no depth budget left, or is within its capacity.
NoSubdivision(nd) ==
  Len(nd.nodes) # 0 \/ nd.depth = 0 \/ Len(nd.children) <= nd.maxChildren

RECURSIVE push(_, _, _, _)
RECURSIVE Rebalance(_, _, _, _)

\* The loop `while (--i)` of push, entered with i already decremented: it
\* visits the indices i, i-1, ..., 1 and stops at 0 without visiting it.
Rebalance(st, bd, n, i) ==
  IF i = 0 THEN st
  ELSE
    LET child == st.heap[n].children[i + 1]
        childQuadrant == getBoundQuadrant(st.heap[n], bd[child])
    IN IF childQuadrant = -1 THEN Rebalance(st, bd, n, i - 1)
       ELSE
         LET st1 == push(st, bd, st.heap[n].nodes[childQuadrant + 1], child)
             st2 == [st1 EXCEPT !.heap[n].children = ShiftOut(@, i)]
         IN Rebalance(st2, bd, n, i - 1)

\* node.push(item) on the objects st = [heap, qnode]; bd is every item's bound.
push(st, bd, n, item) ==
  LET nd == st.heap[n]
      quadrant == getBoundQuadrant(nd, bd[item])
  IN IF quadrant # -1 THEN push(st, bd, nd.nodes[quadrant + 1], item)
     ELSE
       LET st1 == [heap |-> [st.heap EXCEPT ![n].children = Append(@, item)],
                   qnode |-> [st.qnode EXCEPT ![item] = n]]
           nd1 == st1.heap[n]
       IN IF NoSubdivision(nd1) THEN st1
          ELSE
            LET base == Len(st1.heap)
                h2 == [st1.heap EXCEPT
                         ![n].nodes = <<base + 1, base + 2, base + 3, base + 4>>]
                      \o Subdivide(nd1, n)
            IN Rebalance([st1 EXCEPT !.heap = h2], bd, n, Len(nd1.children) - 1)

\* ----------------------------------------------------------------- remove
\* Array.prototype.indexOf: the first 0-based index of item, or -1.
indexOf(children, item) ==
  IF \E k \in 1..Len(children) : children[k] = item
  THEN (CHOOSE k \in 1..Len(children) :
          children[k] = item /\ \A j \in 1..(k - 1) : children[j] # item) - 1
  ELSE -1

\* children[i] = children[children.length - 1]; children.pop();
\* With i = -1 the assignment sets the property "-1", not an element, and
\* pop() still drops the last element.
SwapPop(children, i) ==
  IF Len(children) = 0 THEN children
  ELSE IF i = -1 THEN SubSeq(children, 1, Len(children) - 1)
  ELSE SubSeq([children EXCEPT ![i + 1] = children[Len(children)]],
              1, Len(children) - 1)

RECURSIVE clean(_, _)
\* A slip that compares with >= 0, so that no node ever merges.
clean_NeverMerge(h, n) == h

\* node.clean(): merge when each of the four child objects holds no item.
clean(h, n) ==
  LET nodes == h[n].nodes
  IN IF Len(nodes) = 0 THEN h
     ELSE IF Len(h[nodes[1]].children) > 0 THEN h
     ELSE IF Len(h[nodes[2]].children) > 0 THEN h
     ELSE IF Len(h[nodes[3]].children) > 0 THEN h
     ELSE IF Len(h[nodes[4]].children) > 0 THEN h
     ELSE
       LET h1 == [h EXCEPT ![n].nodes = <<>>]
       IN IF h[n].parent = Undefined THEN h1 ELSE clean(h1, h[n].parent)

\* root.remove(item): the call is forwarded to item._qtree_node.
remove(h, q, item) ==
  LET itemNode == q[item]
      h1 == [h EXCEPT ![itemNode].children = SwapPop(@, indexOf(@, item))]
  IN IF h[itemNode].parent = Undefined THEN h1
     ELSE clean(h1, h[itemNode].parent)

\* --------------------------------------------------------- removePreserve
RECURSIVE getChildrenCount(_, _)
getChildrenCount(h, n) ==
  LET nodes == h[n].nodes
  IN Len(h[n].children) +
     (IF Len(nodes) # 0
      THEN getChildrenCount(h, nodes[2]) + getChildrenCount(h, nodes[1])
           + getChildrenCount(h, nodes[3]) + getChildrenCount(h, nodes[4])
      ELSE 0)

\* The order in which `while (i--) this.children.push(c[i])` reads c.
Backwards(c) == [k \in 1..Len(c) |-> c[Len(c) + 1 - k]]

RECURSIVE cleanPreserve(_, _)
\* node.cleanPreserve(): [heap, threw].  The root's parent is undefined, which
\* `this.parent === null` does not catch, so a collapse of the root ends in
\* a call on undefined: a TypeError, raised after the collapse is done.
cleanPreserve(h, n) ==
  LET nodes == h[n].nodes
  IN IF Len(nodes) = 0 THEN [heap |-> h, threw |-> FALSE]
     ELSE IF getChildrenCount(h, n) > h[n].maxChildren
     THEN [heap |-> h, threw |-> FALSE]
     ELSE
       LET h1 == [h EXCEPT
                    ![n].children = @ \o Backwards(h[nodes[1]].children)
                                      \o Backwards(h[nodes[2]].children)
                                      \o Backwards(h[nodes[3]].children)
                                      \o Backwards(h[nodes[4]].children),
                    ![n].nodes = <<>>]
       IN IF h[n].parent = Undefined THEN [heap |-> h1, threw |-> TRUE]
          ELSE cleanPreserve(h1, h[n].parent)

\* root.removePreserve(item): [heap, threw].
removePreserve(h, q, item) ==
  LET itemNode == q[item]
      h1 == [h EXCEPT ![itemNode].children = SwapPop(@, indexOf(@, item))]
  IN IF h[itemNode].parent = Undefined THEN [heap |-> h1, threw |-> FALSE]
     ELSE cleanPreserve(h1, h[itemNode].parent)

\* ------------------------------------------------------------------ query
isNotIntersectingBound(x1, y1, x2, y2, tx1, ty1, tx2, ty2) ==
  tx2 < x1 \/ tx1 > x2 \/ ty2 < y1 \/ ty1 > y2

RECURSIVE Scan(_, _, _)
\* `while (i--) { if (callback(children[i])) return; }`: the items passed to
\* the callback from index i down, ending with the first one it stops on.
Scan(children, i, stop) ==
  IF i < 0 THEN <<>>
  ELSE IF children[i + 1] \in stop THEN <<children[i + 1]>>
  ELSE <<children[i + 1]>> \o Scan(children, i - 1, stop)

RECURSIVE query(_, _, _, _)
\* A slip that forgets the recursion into the fourth child node.
query_NoSE(h, n, r, stop) ==
  LET nd == h[n]
      calls == Scan(nd.children, Len(nd.children) - 1, stop)
  IN IF isNotIntersectingBound(nd.x1, nd.y1, nd.x2, nd.y2, r.x1, r.y1, r.x2, r.y2)
     THEN <<>>
     ELSE IF \E k \in 1..Len(calls) : calls[k] \in stop THEN calls
     ELSE IF Len(nd.nodes) = 0 THEN calls
     ELSE calls \o query(h, nd.nodes[1], r, stop) \o query(h, nd.nodes[2], r, stop)
                \o query(h, nd.nodes[3], r, stop)

\* node.query(x1, y1, x2, y2, callback): the items passed to callback, in
\* call order; callback returns a truthy value exactly on the items of stop.
query(h, n, r, stop) ==
  LET nd == h[n]
      calls == Scan(nd.children, Len(nd.children) - 1, stop)
  IN IF isNotIntersectingBound(nd.x1, nd.y1, nd.x2, nd.y2, r.x1, r.y1, r.x2, r.y2)
     THEN <<>>
     ELSE IF \E k \in 1..Len(calls) : calls[k] \in stop THEN calls
     ELSE IF Len(nd.nodes) = 0 THEN calls
     ELSE calls \o query(h, nd.nodes[1], r, stop) \o query(h, nd.nodes[2], r, stop)
                \o query(h, nd.nodes[3], r, stop) \o query(h, nd.nodes[4], r, stop)

\* ------------------------------------------------------------------ clear
\* A slip that empties the item list and keeps the child nodes.
clear_KeepNodes(h, n) == [h EXCEPT ![n].children = <<>>]

\* node.clear(): `this.children = []; this.nodes = [];`
clear(h, n) == [h EXCEPT ![n].children = <<>>, ![n].nodes = <<>>]

\* ------------------------------------------- the prototype implementation
\* The file's second implementation, written on Quadtree.prototype: the same
\* node objects, an item's bound read from item._qtree_bbox.

\* Quadtree.prototype.getBoundQuadrant: the two east tests compare the
\* bound's x1 with this.my.
prototype_getBoundQuadrant(nd, b) ==
  IF Len(nd.nodes) = 0 THEN -1
  ELSE IF b.y2 < nd.my /\ b.y1 > nd.y1 /\ b.x2 < nd.mx /\ b.x1 > nd.x1 THEN 0
  ELSE IF b.y2 < nd.my /\ b.y1 > nd.y1 /\ b.x1 > nd.my /\ b.x2 < nd.x2 THEN 1
  ELSE IF b.y1 > nd.my /\ b.y2 < nd.y2 /\ b.x2 < nd.mx /\ b.x1 > nd.x1 THEN 2
  ELSE IF b.y1 > nd.my /\ b.y2 < nd.y2 /\ b.x1 > nd.my /\ b.x2 < nd.x2 THEN 3
  ELSE -1

RECURSIVE prototype_push(_, _, _, _)
RECURSIVE prototype_Rebalance(_, _, _, _)

\* The loop `while (--i)` of Quadtree.prototype.push.
prototype_Rebalance(st, bd, n, i) ==
  IF i = 0 THEN st
  ELSE
    LET child == st.heap[n].children[i + 1]
        childQuadrant == prototype_getBoundQuadrant(st.heap[n], bd[child])
    IN IF childQuadrant = -1 THEN prototype_Rebalance(st, bd, n, i - 1)
       ELSE
         LET st1 == prototype_push(st, bd, st.heap[n].nodes[childQuadrant + 1], child)
             st2 == [st1 EXCEPT !.heap[n].children = ShiftOut(@, i)]
         IN prototype_Rebalance(st2, bd, n, i - 1)

\* Quadtree.prototype.push(item) on the objects st = [heap, qnode].
prototype_push(st, bd, n, item) ==
  LET nd == st.heap[n]
      quadrant == prototype_getBoundQuadrant(nd, bd[item])
  IN IF quadrant # -1 THEN prototype_push(st, bd, nd.nodes[quadrant + 1], item)
     ELSE
       LET st1 == [heap |-> [st.heap EXCEPT ![n].children = Append(@, item)],
                   qnode |-> [st.qnode EXCEPT ![item] = n]]
           nd1 == st1.heap[n]
       IN IF NoSubdivision(nd1) THEN st1
          ELSE
            LET base == Len(st1.heap)
                h2 == [st1.heap EXCEPT
                         ![n].nodes = <<base + 1, base + 2, base + 3, base + 4>>]
                      \o Subdivide(nd1, n)
            IN prototype_Rebalance([st1 EXCEPT !.heap = h2], bd, n,
                                   Len(nd1.children) - 1)

RECURSIVE prototype_Scan(_, _, _, _)
\* The item loop of Quadtree.prototype.query: from index i down, the items
\* whose bound intersects the rectangle r; the callback's result is unused.
prototype_Scan(children, bd, i, r) ==
  IF i < 0 THEN <<>>
  ELSE
    LET childBound == bd[children[i + 1]]
        rest == prototype_Scan(children, bd, i - 1, r)
    IN IF ~isNotIntersectingBound(childBound.x1, childBound.y1, childBound.x2,
                                  childBound.y2, r.x1, r.y1, r.x2, r.y2)
       THEN <<children[i + 1]>> \o rest
       ELSE rest

RECURSIVE prototype_query(_, _, _, _)
\* Quadtree.prototype.query(x1, y1, x2, y2, callback): the items passed to
\* callback, in call order.
prototype_query(h, bd, n, r) ==
  LET nd == h[n]
      calls == prototype_Scan(nd.children, bd, Len(nd.children) - 1, r)
  IN IF isNotIntersectingBound(nd.x1, nd.y1, nd.x2, nd.y2, r.x1, r.y1, r.x2, r.y2)
     THEN <<>>
     ELSE IF Len(nd.nodes) = 0 THEN calls
     ELSE calls \o prototype_query(h, bd, nd.nodes[1], r)
                \o prototype_query(h, bd, nd.nodes[2], r)
                \o prototype_query(h, bd, nd.nodes[3], r)
                \o prototype_query(h, bd, nd.nodes[4], r)

RECURSIVE PredicateScan(_, _, _)
\* The item loop of queryPredicate: from index i down, the items on which
\* predicate returns true, that is the items of pred.
PredicateScan(children, i, pred) ==
  IF i < 0 THEN <<>>
  ELSE IF children[i + 1] \in pred
       THEN <<children[i + 1]>> \o PredicateScan(children, i - 1, pred)
       ELSE PredicateScan(children, i - 1, pred)

\* Quadtree.prototype.queryPredicate(x1, y1, x2, y2, predicate, callback): the
\* items passed to callback, in call order. The four child nodes are visited
\* with query, not with queryPredicate.
prototype_queryPredicate(h, bd, n, r, pred) ==
  LET nd == h[n]
      calls == PredicateScan(nd.children, Len(nd.children) - 1, pred)
  IN IF isNotIntersectingBound(nd.x1, nd.y1, nd.x2, nd.y2, r.x1, r.y1, r.x2, r.y2)
     THEN <<>>
     ELSE IF Len(nd.nodes) = 0 THEN calls
     ELSE calls \o prototype_query(h, bd, nd.nodes[1], r)
                \o prototype_query(h, bd, nd.nodes[2], r)
                \o prototype_query(h, bd, nd.nodes[3], r)
                \o prototype_query(h, bd, nd.nodes[4], r)

\* ---------------------------------------------------------------- helpers
Range(s) == {s[k] : k \in 1..Len(s)}

Count(s, x) == Cardinality({k \in 1..Len(s) : s[k] = x})

RECURSIVE Subtree(_, _)
\* The node objects reachable from n through nodes.
Subtree(h, n) ==
  {n} \cup UNION {Subtree(h, h[n].nodes[k]) : k \in 1..Len(h[n].nodes)}

\* The closed-rectangle overlap the documentation means by "intersect".
Overlaps(b, r) ==
  b.x1 <= r.x2 /\ r.x1 <= b.x2 /\ b.y1 <= r.y2 /\ r.y1 <= b.y2

Inside(b, nd) ==
  nd.x1 <= b.x1 /\ b.x2 <= nd.x2 /\ nd.y1 <= b.y1 /\ b.y2 <= nd.y2

NoTrip == [item |-> 0, pre |-> 0, phase |-> "none"]

\* ---------------------------------------------------------------- actions
\* The items are interchangeable objects, so the caller's choice of bounds
\* is taken up to a renaming of the items: in the order of the list boxes.
Bounds(boxes) ==
  {[i \in Items |-> boxes[f[i]]] :
     f \in {g \in [Items -> 1..Len(boxes)] :
              \A i, j \in Items : i < j => g[i] <= g[j]}}

InitWith(root, boxes) ==
  /\ heap = <<root>>
  /\ qnode = [i \in Items |-> Undefined]
  /\ bound \in Bounds(boxes)
  /\ live = {}
  /\ err = FALSE
  /\ qrect = NoRect
  /\ out = <<>>
  /\ qset = {}
  /\ trip = NoTrip
  /\ twin = [heap |-> <<root>>, qnode |-> [i \in Items |-> Undefined]]
  /\ log = <<>>

Init == \E root \in RootConfigs : InitWith(root, Boxes)

\* The caller calls root.push(item) on an item it does not hold in the tree.
PushOp(item) ==
  /\ item \notin live
  /\ LET st == push([heap |-> heap, qnode |-> qnode], bound, Root, item)
     IN /\ Len(st.heap) <= 1 + 4 * MaxSplits
        /\ heap' = st.heap
        /\ qnode' = st.qnode
  /\ bound' = bound
  /\ live' = live \cup {item}
  /\ err' = FALSE
  /\ qrect' = NoRect
  /\ out' = <<>>
  /\ qset' = {}

\* The caller calls root.remove(item) on an item it pushed.
RemoveOp(item) ==
  /\ item \in live
  /\ heap' = remove(heap, qnode, item)
  /\ live' = live \ {item}
  /\ err' = FALSE
  /\ qrect' = NoRect
  /\ out' = <<>>
  /\ qset' = {}
  /\ UNCHANGED <<qnode, bound>>

\* The caller calls root.removePreserve(item) on an item it pushed.
RemovePreserveOp(item) ==
  /\ item \in live
  /\ LET res == removePreserve(heap, qnode, item)
     IN heap' = res.heap /\ err' = res.threw
  /\ live' = live \ {item}
  /\ qrect' = NoRect
  /\ out' = <<>>
  /\ qset' = {}
  /\ UNCHANGED <<qnode, bound>>

\* The caller calls root.query(r, callback) with a callback that never stops.
QueryOp(r) ==
  /\ qrect' = r
  /\ out' = query(heap, Root, r, {})
  /\ qset' = {}
  /\ UNCHANGED <<heap, qnode, bound, live, err>>

\* The caller calls root.query(r, callback) with a callback that returns a
\* truthy value exactly on the items of s.
QueryStopOp(r, s) ==
  /\ qrect' = r
  /\ out' = query(heap, Root, r, s)
  /\ qset' = s
  /\ UNCHANGED <<heap, qnode, bound, live, err>>

\* The caller calls root.clear() and from then on holds no item in the tree.
ClearOp ==
  /\ heap' = clear(heap, Root)
  /\ live' = {}
  /\ err' = FALSE
  /\ qrect' = NoRect
  /\ out' = <<>>
  /\ qset' = {}
  /\ UNCHANGED <<qnode, bound>>

Push == \E item \in Items : PushOp(item) /\ UNCHANGED <<trip, twin, log>>

Remove == \E item \in Items : RemoveOp(item) /\ UNCHANGED <<trip, twin, log>>

RemovePreserve ==
  \E item \in Items : RemovePreserveOp(item) /\ UNCHANGED <<trip, twin, log>>

Query == \E r \in Rects : QueryOp(r) /\ UNCHANGED <<trip, twin, log>>

Next == Push \/ Remove \/ RemovePreserve \/ Query

Spec == Init /\ [][Next]_vars

\* Runs that only push and query.
NextPush == Push \/ Query

SpecPush == Init /\ [][NextPush]_vars

\* Runs that remove with remove() only.
NextRemove == Push \/ Remove

SpecRemove == Init /\ [][NextRemove]_vars

\* Runs that push and remove either way, without queries, on the roots that
\* subdivide soonest and with three of the bounds.
MutateRoots == {root \in RootConfigs : root.maxChildren = 1}

MutateBoxes == <<Box(1, 1, 2, 2), Box(3, 3, 5, 5), Box(9, 9, 10, 10)>>

InitMutate == \E root \in MutateRoots : InitWith(root, MutateBoxes)

NextMutate == Push \/ Remove \/ RemovePreserve

SpecMutate == InitMutate /\ [][NextMutate]_vars

\* Runs that push and query with callbacks that stop on some item.
QueryStop ==
  \E r \in Rects, s \in SUBSET Items \ {{}} :
    QueryStopOp(r, s) /\ UNCHANGED <<trip, twin, log>>

NextStop == Push \/ QueryStop

SpecStop == Init /\ [][NextStop]_vars

\* Runs of the prototype implementation: pushes and queryPredicate calls, with
\* a predicate that holds exactly on the items of pred.
InitPrototype == \E root \in RootConfigs : InitWith(root, PrototypeBoxes)

PrototypePush ==
  \E item \in Items :
    /\ item \notin live
    /\ LET st == prototype_push([heap |-> heap, qnode |-> qnode], bound, Root, item)
       IN /\ Len(st.heap) <= 1 + 4 * MaxSplits
          /\ heap' = st.heap
          /\ qnode' = st.qnode
    /\ live' = live \cup {item}
    /\ err' = FALSE
    /\ qrect' = NoRect
    /\ out' = <<>>
    /\ qset' = {}
    /\ UNCHANGED <<bound, trip, twin, log>>

PrototypeQueryPredicate ==
  \E r \in Rects, pred \in SUBSET Items :
    /\ qrect' = r
    /\ out' = prototype_queryPredicate(heap, bound, Root, r, pred)
    /\ qset' = pred
    /\ UNCHANGED <<heap, qnode, bound, live, err, trip, twin, log>>

NextPrototype == PrototypePush \/ PrototypeQueryPredicate

SpecPrototype == InitPrototype /\ [][NextPrototype]_vars

\* Runs that remove with removePreserve() only.
NextPreserve == Push \/ RemovePreserve

SpecPreserve == Init /\ [][NextPreserve]_vars

\* Runs that record, for a push and the removal that directly follows it, the
\* root's item count before the push.
TripAfterRemoval(item) ==
  IF trip.phase = "pushed" /\ trip.item = item
  THEN [trip EXCEPT !.phase = "removed"]
  ELSE NoTrip

TripPush ==
  \E item \in Items :
    /\ PushOp(item)
    /\ trip' = [item |-> item, pre |-> getChildrenCount(heap, Root),
                phase |-> "pushed"]
    /\ UNCHANGED <<twin, log>>

TripRemove ==
  \E item \in Items :
    RemoveOp(item) /\ trip' = TripAfterRemoval(item) /\ UNCHANGED <<twin, log>>

TripRemovePreserve ==
  \E item \in Items :
    /\ RemovePreserveOp(item)
    /\ trip' = TripAfterRemoval(item)
    /\ UNCHANGED <<twin, log>>

NextTrip == TripPush \/ TripRemove \/ TripRemovePreserve

SpecTrip == Init /\ [][NextTrip]_vars

\* Runs on two trees: the same pushes on both, and each removal made with
\* remove() on the first and with removePreserve() on the second.
TwinPush ==
  \E item \in Items :
    /\ PushOp(item)
    /\ LET st == push(twin, bound, Root, item)
       IN Len(st.heap) <= 1 + 4 * MaxSplits /\ twin' = st
    /\ UNCHANGED <<trip, log>>

TwinRemove ==
  \E item \in Items :
    /\ RemoveOp(item)
    /\ twin' = [twin EXCEPT !.heap = removePreserve(twin.heap, twin.qnode, item).heap]
    /\ UNCHANGED <<trip, log>>

NextTwin == TwinPush \/ TwinRemove

SpecTwin == Init /\ [][NextTwin]_vars

\* Runs on the root of the documented scenario, with its three bounds, that
\* record the operations made.
InitScenario == InitWith(ScenarioRoot, ScenarioBoxes)

Logged(op, item) ==
  /\ Len(log) < MaxLog
  /\ log' = Append(log, [op |-> op, box |-> bound[item]])

ScenarioPush ==
  \E item \in Items : PushOp(item) /\ Logged("push", item) /\ UNCHANGED <<trip, twin>>

ScenarioRemove ==
  \E item \in Items : RemoveOp(item) /\ Logged("remove", item) /\ UNCHANGED <<trip, twin>>

ScenarioQuery == \E r \in ScenarioRects : QueryOp(r) /\ UNCHANGED <<trip, twin, log>>

NextScenario == ScenarioPush \/ ScenarioRemove \/ ScenarioQuery

SpecScenario == InitScenario /\ [][NextScenario]_vars

\* Runs that build a tree by pushes, clear it and query it: they end where the
\* next push would come.
ClearTree ==
  /\ ClearOp
  /\ trip' = [item |-> 0, pre |-> getChildrenCount(heap, Root), phase |-> "cleared"]
  /\ UNCHANGED <<twin, log>>

ClearPush ==
  /\ trip.phase # "cleared"
  /\ \E item \in Items : PushOp(item) /\ UNCHANGED <<trip, twin, log>>

\* The queries made after the clear().
ClearQuery ==
  /\ trip.phase = "cleared"
  /\ \E r \in Rects, s \in {{}, Items} :
       QueryStopOp(r, s) /\ UNCHANGED <<trip, twin, log>>

NextClear == ClearTree \/ ClearPush \/ ClearQuery

SpecClear == Init /\ [][NextClear]_vars

\* Every node's midpoint is exact: no region of odd width is ever halved.
ExactMidpoints ==
  \A n \in 1..Len(heap) :
    (heap[n].x2 - heap[n].x1) % 2 = 0 /\ (heap[n].y2 - heap[n].y1) % 2 = 0

\* ----------------------------------------------------------------- claims
FullRegion == Box(heap[Root].x1, heap[Root].y1, heap[Root].x2, heap[Root].y2)

Attached == Subtree(heap, Root)

\* C1: after pushes only, a query with a callback that never stops passes to
\* the callback every pushed item whose bound lies inside the root's region
\* and overlaps the query rectangle.
C1_QueryComplete ==
  qrect # NoRect =>
    \A i \in live :
      (Inside(bound[i], heap[Root]) /\ Overlaps(bound[i], qrect)) => i \in Range(out)

\* A query smaller than the root skipped the region of some node and
\* reported an overlapping item held two levels below the root.
C1_Witness ==
  /\ qrect # NoRect /\ qrect # FullRegion
  /\ \E n \in Attached :
       isNotIntersectingBound(heap[n].x1, heap[n].y1, heap[n].x2, heap[n].y2,
                              qrect.x1, qrect.y1, qrect.x2, qrect.y2)
  /\ \E i \in live :
       /\ Overlaps(bound[i], qrect) /\ i \in Range(out)
       /\ heap[qnode[i]].parent # Undefined
       /\ heap[heap[qnode[i]].parent].parent # Undefined

\* C2: a query never passes to the callback an item whose bound is disjoint
\* from the query rectangle.
C2_QuerySound ==
  qrect # NoRect => \A k \in 1..Len(out) : Overlaps(bound[out[k]], qrect)

\* C3: an item removed with remove or removePreserve is not passed to the
\* callback of any later query until it is pushed again.
C3_RemovedNotYielded ==
  qrect # NoRect => \A k \in 1..Len(out) : out[k] \in live

\* C4: after pushes only, a query of the root's full region passes every
\* pushed item to the callback exactly once, and no other item.
C4_ExactlyOnce ==
  qrect = FullRegion =>
    \A i \in Items : Count(out, i) = (IF i \in live THEN 1 ELSE 0)

\* All the items were pushed, two subdivisions were made, and the full region
\* was queried.
C4_Witness ==
  /\ qrect = FullRegion
  /\ live = Items
  /\ Len(heap) = 1 + 4 * 2

\* C5: push(x) directly followed by remove(x) or removePreserve(x) leaves
\* getChildrenCount() of the root at its value before the push.
C5_RoundTrip ==
  trip.phase = "removed" => getChildrenCount(heap, Root) = trip.pre

\* C6: every item held in the item list of a node reachable from the root
\* has that node as its _qtree_node.
C6_BackReference ==
  \A n \in Attached :
    \A k \in 1..Len(heap[n].children) : qnode[heap[n].children[k]] = n

\* C7: the tree that removes with remove() and the tree that removes with
\* removePreserve() yield the same set of items for every query rectangle.
C7_SameMembership ==
  \A r \in Rects :
    Range(query(heap, Root, r, {})) = Range(query(twin.heap, Root, r, {}))

\* C8: after pushes only, every leaf whose depth budget is greater than 0
\* holds at most maxChildren items.
C8_LeafCapacity ==
  \A n \in Attached :
    (Len(heap[n].nodes) = 0 /\ heap[n].depth > 0) =>
      Len(heap[n].children) <= heap[n].maxChildren

\* A subdivision was made, and a leaf it created, left without depth
\* budget, holds more than maxChildren items.
C8_Witness ==
  \E n \in Attached \ {Root} :
    /\ Len(heap[n].nodes) = 0 /\ heap[n].depth = 0
    /\ Len(heap[n].children) > heap[n].maxChildren

\* C9, as stated: once every pushed item has been removed with remove(), the
\* root has no child nodes and holds no items.
C9_AllRemovedIsLeaf ==
  live = {} => Len(heap[Root].nodes) = 0 /\ Len(heap[Root].children) = 0

\* C9, amended: the removal with remove() that empties the tree leaves the
\* root without items, and without child nodes when the item it removed was
\* held by a node below the root.
C9_LastRemovalMerges ==
  [][(live # {} /\ live' = {}) =>
       /\ Len(heap'[Root].children) = 0
       /\ (\E x \in live : qnode[x] # Root /\ qnode[x] \in Attached)
            => Len(heap'[Root].nodes) = 0]_vars

\* Everything was removed after two subdivisions, and the root is a leaf.
C9_Witness ==
  /\ live = {}
  /\ Len(heap) = 1 + 4 * 2
  /\ Len(heap[Root].nodes) = 0

ScenarioLog ==
  <<[op |-> "push", box |-> ScenarioA],
    [op |-> "push", box |-> ScenarioB],
    [op |-> "push", box |-> ScenarioC]>>

HeldBoxes(n) == [k \in 1..Len(heap[n].children) |-> bound[heap[n].children[k]]]

\* C10, as stated: after pushing (0,0,5,5), (1,1,6,6), (2,2,7,7) in that
\* order the root is subdivided, holds none of them itself, and its NW child
\* holds all three.
C10_AllInNW ==
  log = ScenarioLog =>
    /\ Len(heap[Root].nodes) = 4
    /\ Len(heap[Root].children) = 0
    /\ Len(heap[heap[Root].nodes[1]].children) = 3

\* C10, amended: after those pushes the root is subdivided, its NW child
\* holds (2,2,7,7) and (1,1,6,6), and (0,0,5,5), which touches the root's
\* outer edge, is held by the root itself.
C10_TwoInNW ==
  log = ScenarioLog =>
    /\ Len(heap[Root].nodes) = 4
    /\ HeldBoxes(Root) = <<ScenarioA>>
    /\ HeldBoxes(heap[Root].nodes[1]) = <<ScenarioC, ScenarioB>>
    /\ \A k \in 2..4 : Len(heap[heap[Root].nodes[k]].children) = 0

C10_Witness == log = ScenarioLog /\ Cardinality(live) = 3

\* C11: after clear() on the root and until the next push, the root's subtree
\* holds no item, and a query of any rectangle with any callback, stopping
\* or not, calls the callback on nothing.
C11_ClearedIsEmpty ==
  trip.phase = "cleared" =>
    /\ getChildrenCount(heap, Root) = 0
    /\ qrect # NoRect => out = <<>>
    /\ \A r \in Rects, s \in SUBSET Items : query(heap, Root, r, s) = <<>>

\* A subdivided root holding every item was cleared and then queried over
\* its full region.
C11_Witness ==
  /\ trip.phase = "cleared"
  /\ trip.pre = NumItems
  /\ Len(heap) > 1
  /\ qrect = FullRegion

\* C12: in every state reached by push and remove, every item pushed and
\* not removed is still passed to the callback of a query over the root's
\* full region: a remove() loses no other item, whatever clean merges.
C12_RemoveKeepsOthers ==
  \A item \in live : item \in Range(query(heap, Root, FullRegion, {}))

\* The heap in the middle of removePreserve(item): the item is taken out of
\* its node's list and cleanPreserve is about to be called on the parent.
ItemTaken(item) ==
  [heap EXCEPT ![qnode[item]].children = SwapPop(@, indexOf(@, item))]

\* The items of the subtree of node n, in the heap h.
Held(h, n) == UNION {Range(h[m].children) : m \in Subtree(h, n)}

\* C13: whenever the cleanPreserve that a removePreserve starts collapses a
\* node (a subdivided node whose subtree holds at most maxChildren items),
\* the node's own list afterwards contains every item its subtree held
\* before the collapse and getChildrenCount of the node is unchanged.
C13_CollapseKeepsItems ==
  [][\A item \in live :
       live' = live \ {item} =>
         LET h1 == ItemTaken(item)
             p == heap[qnode[item]].parent
         IN (/\ p # Undefined
             /\ Len(h1[p].nodes) # 0
             /\ getChildrenCount(h1, p) <= h1[p].maxChildren) =>
              /\ Held(h1, p) \subseteq Range(heap'[p].children)
              /\ getChildrenCount(heap', p) = getChildrenCount(h1, p)]_vars

\* C14: a removePreserve of an item the caller holds in the tree completes
\* without raising an error, also when the collapse reaches the root.
C14_RemovePreserveCompletes == err = FALSE

\* C15: after pushes only, no item held by a subdivided node fits one of the
\* node's quadrants: the subdivision re-tested every held item, the one at
\* position 0 of the list too, and moved each that fits a child.
C15_OnlyStraddlersStay ==
  \A n \in Attached :
    Len(heap[n].nodes) # 0 =>
      \A k \in 1..Len(heap[n].children) :
        getBoundQuadrant(heap[n], bound[heap[n].children[k]]) = -1

\* C16: once the callback of a query has returned the stop signal, it is not
\* called again during that query: every call but the last one of a query
\* was on an item the callback does not stop on.
C16_StopIsGlobal ==
  \A k \in 1..Len(out) : out[k] \in qset => k = Len(out)

\* C17: in runs of the prototype implementation, queryPredicate passes to
\* callback only items on which the predicate returned true, whether the
\* root holds them or a descendant node does.
C17_OnlyPredicateItems ==
  qrect # NoRect => \A k \in 1..Len(out) : out[k] \in qset

RECURSIVE Level(_, _)
\* The number of parent links from node n up to a node without parent.
Level(h, n) == IF h[n].parent = Undefined THEN 0 ELSE 1 + Level(h, h[n].parent)

\* C18: in every state reached by push, remove and removePreserve, a node
\* whose depth budget is 0 has no child nodes, every child node's budget is
\* its parent's minus 1, and no node lies more levels below the root than the
\* maxDepth the root was built with.
C18_DepthBound ==
  \A n \in 1..Len(heap) :
    /\ heap[n].depth = 0 => heap[n].nodes = <<>>
    /\ \A k \in 1..Len(heap[n].nodes) :
         heap[heap[n].nodes[k]].depth = heap[n].depth - 1
    /\ Level(heap, n) <= heap[Root].depth

\* A node as deep as the root's maxDepth allows, with no budget left, holds
\* more than maxChildren items and is not subdivided.
C18_Witness ==
  \E n \in Attached :
    /\ Level(heap, n) = heap[Root].depth
    /\ Level(heap, n) = 2
    /\ heap[n].depth = 0
    /\ Len(heap[n].children) > heap[n].maxChildren
    /\ heap[n].nodes = <<>>

\* C19: a remove(item) of an item held by an attached node that is
\* subdivided merges nothing: it leaves the child-node list of every node
\* as it was.
C19_NoMergeFromInnerNode ==
  [][\A item \in live :
       (/\ live' = live \ {item}
        /\ qnode[item] \in Attached
        /\ item \in Range(heap[qnode[item]].children)
        /\ Len(heap[qnode[item]].nodes) # 0) =>
         \A n \in 1..Len(heap) : heap'[n].nodes = heap[n].nodes]_vars

\* C20: every item held by an attached node other than the root has its bound
\* strictly inside that node's region: beyond the near edges and short of
\* the far edges.
C20_StrictlyInside ==
  \A n \in Attached \ {Root} :
    \A k \in 1..Len(heap[n].children) :
      LET b == bound[heap[n].children[k]]
      IN /\ b.x1 > heap[n].x1 /\ b.y1 > heap[n].y1
         /\ b.x2 < heap[n].x2 /\ b.y2 < heap[n].y2

====
